---- MODULE Spec2Model ----
(***************************************************************************)
(* A model of the free_access allocator / reclaimer:                       *)
(*   - the phased pool (allocator/pool.rs), at the granularity of its      *)
(*     shared-memory accesses (SpecPool);                                  *)
(*   - the allocator with its per-thread Local contexts, the seed sweep    *)
(*     of Allocator::new, allocate, begin_write_only, validate_read,       *)
(*     restart and the reclamation round of force_gc (Spec, SpecSeed).     *)
(* Pointers are node numbers: pointer i is the payload of PageNode i of    *)
(* the single page the page list ever holds; 0 is the null pointer.        *)
(***************************************************************************)
EXTENDS Integers, Sequences, FiniteSets, TLC

VARIABLES
    pool,       \* Pool: [phase, cells]; cells is the never-freed cell list
    pool_op,    \* per thread: the pool operation in flight (SpecPool)
    pool_hist   \* history of the pool calls (SpecPool)

VARIABLES
    cfg,                \* [buffer_size, page_size]: the sizes the allocator is built with
    phase_index,        \* Allocator::phase_index, the global phase
    sweep_chunk_index,  \* Allocator::sweep_chunk_index, the sweep cursor
    marker,             \* PageNode::marker of every node of the page (raw u64)
    payload,            \* PageNode::data of every node: Uninit or the client's node
    globals,            \* the client's global root (the list head)
    local,              \* per thread: its Local context
    th,                 \* per thread: the call in flight and its local variables
    hist                \* history of the reclamation rounds

VARIABLES
    unit        \* a data structure exercised alone and the history of the calls
                \* on it (SpecStack, SpecFrame, SpecBuffer, SpecFill, SpecWords)

poolVars == <<pool_op, pool_hist>>

allocVars == <<cfg, phase_index, sweep_chunk_index, marker, payload, globals,
               local, th, hist>>

vars == <<pool, pool_op, pool_hist, cfg, phase_index, sweep_chunk_index, marker,
          payload, globals, local, th, hist, unit>>

(***************************************************************************)
(* Bounds of the model.                                                    *)
(***************************************************************************)
NThreads == 2
MaxPoolPhase == 2
MaxPoolCalls == 4
MaxRounds == 3
MaxCalls == 4
MaxStage == 2
MaxAllocs == 2
MaxStackCalls == 7
MaxFrameCalls == 5
MaxFramePtr == 2
MaxBufferCalls == 8
MaxBufferSize == 5
\* The sizes of the scaled-down allocator: as in the code, a page holds twice
\* BUFFER_SIZE nodes.
SmallBuffer == 3
SmallPage == 2 * SmallBuffer

Threads == 1..NThreads

(***************************************************************************)
(* Program constants.                                                      *)
(***************************************************************************)
NULL == 0
BUFFER_SIZE == 128
PAGE_SIZE == 256
PAGE_COUNT == 1

EMPTY == 0
ACCESSED == 1
SET == 2

\* MaybeUninit<T>: <<>> is uninitialised, <<v>> holds v.
Uninit == <<>>
Init_(v) == <<v>>

(***************************************************************************)
(* The phased pool.  A cell is [state, data, phase]; the list order is the *)
(* order of the next links, cell 1 is Pool::start.                         *)
(***************************************************************************)
Node_new == [state |-> EMPTY, data |-> Uninit, phase |-> 0]

Pool_new == [phase |-> 0, cells |-> <<Node_new>>]

\* The next link of cell i: the following cell, or null.
CellNext(p, i) == IF i < Len(p.cells) THEN i + 1 ELSE NULL

PoolIdle == [op |-> "none", pc |-> "idle", data |-> 0, phase |-> 0,
             cur |-> NULL, nxt |-> NULL, res |-> "none", out |-> Uninit,
             snap |-> {}, floor |-> 0]

SetCell(p, i, f, v) == [p EXCEPT !.cells[i][f] = v]

Ret(o, r) == [o EXCEPT !.pc = "ret", !.res = r]

\* ListIter::next followed by the caller's `continue`: move to the cell
\* whose link was read when the current cell was yielded.
Continue(o, back) == [o EXCEPT !.pc = back, !.cur = o.nxt]

\* A pool phase that admits the phase of every earlier round as well.
phase_at_most(pool_phase, phase) == pool_phase >= phase

\* The test of the caller's phase against the pool's phase.
phase_matches(pool_phase, phase) == pool_phase = phase

\* One shared-memory step of Pool::insert(data, phase).
insert_step(p, o) ==
    CASE o.pc = "i_fast" ->
            IF ~phase_matches(p.phase, o.phase)
            THEN [p |-> p, o |-> Ret(o, "rejected")]
            ELSE [p |-> p, o |-> [o EXCEPT !.pc = "i_next", !.cur = 1]]
      [] o.pc = "i_next" ->
            IF o.cur = NULL
            THEN [p |-> p, o |-> [o EXCEPT !.pc = "i_append", !.cur = 1]]
            ELSE LET st == p.cells[o.cur].state
                     o1 == [o EXCEPT !.nxt = CellNext(p, o.cur)]
                 IN  IF st = EMPTY THEN [p |-> p, o |-> [o1 EXCEPT !.pc = "i_cas_e"]]
                     ELSE IF st = SET THEN [p |-> p, o |-> [o1 EXCEPT !.pc = "i_set_ph"]]
                     ELSE [p |-> p, o |-> Continue(o1, "i_next")]
      [] o.pc = "i_cas_e" ->
            IF p.cells[o.cur].state = EMPTY
            THEN [p |-> SetCell(p, o.cur, "state", ACCESSED),
                  o |-> [o EXCEPT !.pc = "i_e_chk"]]
            ELSE [p |-> p, o |-> Continue(o, "i_next")]
      [] o.pc = "i_e_chk" ->
            IF ~phase_matches(p.phase, o.phase)
            THEN [p |-> SetCell(p, o.cur, "state", EMPTY), o |-> Ret(o, "rejected")]
            ELSE [p |-> p, o |-> [o EXCEPT !.pc = "i_e_write"]]
      [] o.pc = "i_e_write" ->
            [p |-> SetCell(SetCell(p, o.cur, "data", Init_(o.data)),
                           o.cur, "phase", o.phase),
             o |-> [o EXCEPT !.pc = "i_e_set"]]
      [] o.pc = "i_e_set" ->
            [p |-> SetCell(p, o.cur, "state", SET), o |-> Ret(o, "ok")]
      [] o.pc = "i_set_ph" ->
            IF p.cells[o.cur].phase >= o.phase
            THEN [p |-> p, o |-> Continue(o, "i_next")]
            ELSE [p |-> p, o |-> [o EXCEPT !.pc = "i_cas_s"]]
      [] o.pc = "i_cas_s" ->
            IF p.cells[o.cur].state = SET
            THEN [p |-> SetCell(p, o.cur, "state", ACCESSED),
                  o |-> [o EXCEPT !.pc = "i_s_chk"]]
            ELSE [p |-> p, o |-> Continue(o, "i_next")]
      [] o.pc = "i_s_chk" ->
            IF ~phase_matches(p.phase, o.phase)
            THEN [p |-> SetCell(p, o.cur, "state", SET), o |-> Continue(o, "i_next")]
            ELSE [p |-> p, o |-> [o EXCEPT !.pc = "i_s_write"]]
      [] o.pc = "i_s_write" ->
            [p |-> SetCell(SetCell(p, o.cur, "data", Init_(o.data)),
                           o.cur, "phase", o.phase),
             o |-> [o EXCEPT !.pc = "i_s_set"]]
      [] o.pc = "i_s_set" ->
            [p |-> SetCell(p, o.cur, "state", SET), o |-> Ret(o, "ok")]
      [] o.pc = "i_append" ->
            \* o.cur is `latest`; the new cell is ACCESSED, tagged with the
            \* phase, and its data is never written.
            IF CellNext(p, o.cur) = NULL
            THEN [p |-> [p EXCEPT !.cells = Append(p.cells,
                            [state |-> ACCESSED, data |-> Uninit, phase |-> o.phase])],
                  o |-> [o EXCEPT !.pc = "i_a_chk", !.cur = Len(p.cells) + 1]]
            ELSE [p |-> p, o |-> [o EXCEPT !.cur = CellNext(p, o.cur)]]
      [] o.pc = "i_a_chk" ->
            IF ~phase_matches(p.phase, o.phase)
            THEN [p |-> SetCell(p, o.cur, "state", EMPTY), o |-> Ret(o, "rejected")]
            ELSE [p |-> p, o |-> Ret(o, "ok")]

\* A pop that takes a cell's payload whatever phase tags it.
stale_ignored(node_phase, pool_phase) == FALSE

\* pop: the payload of a cell tagged with another phase than the pool's is
\* stale.
stale(node_phase, pool_phase) == node_phase # pool_phase

\* One shared-memory step of Pool::pop(phase).
pop_step(p, o) ==
    CASE o.pc = "p_fast" ->
            IF ~phase_matches(p.phase, o.phase)
            THEN [p |-> p, o |-> Ret(o, "InvalidPhase")]
            ELSE [p |-> p, o |-> [o EXCEPT !.pc = "p_next", !.cur = 1]]
      [] o.pc = "p_next" ->
            IF o.cur = NULL
            THEN [p |-> p, o |-> Ret(o, "Empty")]
            ELSE LET o1 == [o EXCEPT !.nxt = CellNext(p, o.cur)]
                 IN  IF p.cells[o.cur].state = SET
                     THEN [p |-> p, o |-> [o1 EXCEPT !.pc = "p_cas"]]
                     ELSE [p |-> p, o |-> Continue(o1, "p_next")]
      [] o.pc = "p_cas" ->
            IF p.cells[o.cur].state = SET
            THEN [p |-> SetCell(p, o.cur, "state", ACCESSED),
                  o |-> [o EXCEPT !.pc = "p_chk"]]
            ELSE [p |-> p, o |-> Continue(o, "p_next")]
      [] o.pc = "p_chk" ->
            IF stale(p.cells[o.cur].phase, p.phase)
            THEN [p |-> p, o |-> [o EXCEPT !.pc = "p_drop"]]
            ELSE IF ~phase_matches(p.phase, o.phase)
            THEN [p |-> p, o |-> [o EXCEPT !.pc = "p_restore"]]
            ELSE [p |-> p, o |-> [o EXCEPT !.pc = "p_take"]]
      [] o.pc = "p_drop" ->
            [p |-> SetCell(SetCell(p, o.cur, "data", Uninit), o.cur, "state", EMPTY),
             o |-> Continue(o, "p_next")]
      [] o.pc = "p_restore" ->
            [p |-> SetCell(p, o.cur, "state", SET), o |-> Ret(o, "InvalidPhase")]
      [] o.pc = "p_take" ->
            [p |-> SetCell(SetCell(p, o.cur, "data", Uninit), o.cur, "state", EMPTY),
             o |-> [Ret(o, "ok") EXCEPT !.out = p.cells[o.cur].data]]

\* update_phase rejecting only a phase below the previous one.
update_phase_step_gt(p, o) ==
    CASE o.pc = "u_load" ->
            [p |-> p, o |-> [o EXCEPT !.pc = "u_cas", !.cur = p.phase]]
      [] o.pc = "u_cas" ->
            IF o.cur > o.phase
            THEN [p |-> p, o |-> Ret(o, "rejected")]
            ELSE IF p.phase = o.cur
            THEN [p |-> [p EXCEPT !.phase = o.phase], o |-> Ret(o, "ok")]
            ELSE [p |-> p, o |-> [o EXCEPT !.cur = p.phase]]

\* One shared-memory step of Pool::update_phase(n_phase); o.cur is `previous`.
update_phase_step(p, o) ==
    CASE o.pc = "u_load" ->
            [p |-> p, o |-> [o EXCEPT !.pc = "u_cas", !.cur = p.phase]]
      [] o.pc = "u_cas" ->
            IF o.cur >= o.phase
            THEN [p |-> p, o |-> Ret(o, "rejected")]
            ELSE IF p.phase = o.cur
            THEN [p |-> [p EXCEPT !.phase = o.phase], o |-> Ret(o, "ok")]
            ELSE [p |-> p, o |-> [o EXCEPT !.cur = p.phase]]

pool_step(p, o) ==
    CASE o.op = "insert" -> insert_step(p, o)
      [] o.op = "pop" -> pop_step(p, o)
      [] o.op = "update_phase" -> update_phase_step(p, o)

insert_call(data, phase) ==
    [PoolIdle EXCEPT !.op = "insert", !.pc = "i_fast", !.data = data, !.phase = phase]

pop_call(phase) ==
    [PoolIdle EXCEPT !.op = "pop", !.pc = "p_fast", !.phase = phase]

update_phase_call(n_phase) ==
    [PoolIdle EXCEPT !.op = "update_phase", !.pc = "u_load", !.phase = n_phase]

\* A whole call run without interference: its steps one after the other.
RECURSIVE pool_run(_, _)
pool_run(p, o) ==
    IF o.pc = "ret" THEN [p |-> p, o |-> o]
    ELSE LET s == pool_step(p, o) IN pool_run(s.p, s.o)

(***************************************************************************)
(* The dirty word and the PageNode marker: (phase << 8) | flag in a u64.   *)
(* Phases of the model stay far below 2^56, so the shift never wraps.      *)
(***************************************************************************)
DirtyValue_from_u64(val) == [dirty |-> val % 2 = 1, phase |-> val \div 256]

DirtyValue_to_u64(d) == d.phase * 256 + (IF d.dirty THEN 1 ELSE 0)

\* Udirty::update: a compare-and-set on the whole word.
Udirty_update(raw, expected, n_dirty) ==
    IF raw = expected THEN DirtyValue_to_u64(n_dirty) ELSE raw

NodeMarks_from(raw) == [marked |-> raw % 2 = 1, phase |-> raw \div 256]

NodeMarks_into(m) == m.phase * 256 + (IF m.marked THEN 1 ELSE 0)

\* The marker swapped in whatever it holds.
PageNode_update_marks_swap(raw, expected, n_marks) ==
    [ok |-> TRUE, raw |-> NodeMarks_into(n_marks)]

\* PageNode::update_marks: CAS of the marker from `expected` to `n_marks`.
PageNode_update_marks(raw, expected, n_marks) ==
    IF raw = NodeMarks_into(expected)
    THEN [ok |-> TRUE, raw |-> NodeMarks_into(n_marks)]
    ELSE [ok |-> FALSE, raw |-> raw]

(***************************************************************************)
(* The arbiter.                                                            *)
(***************************************************************************)
Arbiter_next(prev) == prev % 2

(***************************************************************************)
(* The sweep cursor: (phase << 32) | index.  The halves are taken with two *)
(* 16-bit shifts, which keeps every intermediate value in range.           *)
(***************************************************************************)
index_data(index) ==
    <<(index \div 65536) \div 65536,
      (index % 65536) + 65536 * ((index \div 65536) % 65536)>>

(***************************************************************************)
(* AllocationBuffer: `size` buckets and a head index.  Bucket k of the     *)
(* code is buffer[k + 1].                                                  *)
(***************************************************************************)
AllocationBuffer_new(size) == [buffer |-> [i \in 1..size |-> NULL], head |-> 0]

AllocationBuffer_is_empty(b) == b.head < 1

AllocationBuffer_insert(b, ptr) ==
    LET current == b.head
        next == current + 1
    IN  IF next >= Len(b.buffer)
        THEN [ok |-> FALSE, b |-> b]
        ELSE IF b.buffer[current + 1] = NULL
        THEN [ok |-> TRUE, b |-> [b EXCEPT !.head = next, !.buffer[current + 1] = ptr]]
        ELSE [ok |-> FALSE, b |-> [b EXCEPT !.head = next]]

\* Some(ptr) is <<ptr>>, None is <<>>.
\* pop reading the bucket at the head instead of the one below it.
AllocationBuffer_pop_head(b) ==
    LET current == b.head
    IN  IF current < 1
        THEN [val |-> <<>>, b |-> b]
        ELSE [val |-> <<b.buffer[current + 1]>>, b |-> [b EXCEPT !.head = current - 1]]

AllocationBuffer_pop(b) ==
    LET current == b.head
        next == current - 1
    IN  IF current < 1
        THEN [val |-> <<>>, b |-> b]
        ELSE [val |-> <<b.buffer[next + 1]>>,
              b |-> [b EXCEPT !.head = next, !.buffer[next + 1] = NULL]]

\* The pointers a buffer holds.
BufferPtrs(b) == {b.buffer[i] : i \in 1..Len(b.buffer)} \ {NULL}

(***************************************************************************)
(* HazardPtrFrame: the list of slots, in link order.                       *)
(***************************************************************************)
HazardPtrFrame_new == <<NULL>>

\* store that always writes the first slot.
HazardPtrFrame_store_first(f, ptr) == [f EXCEPT ![1] = ptr]

\* store: CAS into the first slot that holds null, else append a slot.
HazardPtrFrame_store(f, ptr) ==
    IF \E i \in 1..Len(f) : f[i] = NULL
    THEN LET i == CHOOSE i \in 1..Len(f) :
                     f[i] = NULL /\ \A j \in 1..(i - 1) : f[j] # NULL
         IN  [f EXCEPT ![i] = ptr]
    ELSE Append(f, ptr)

HazardPtrFrame_roots(f) == SelectSeq(f, LAMBDA x : x # NULL)

\* clear: reset every slot.
HazardPtrFrame_clear(f) == [i \in 1..Len(f) |-> NULL]

(***************************************************************************)
(* MarkStack: the cells in next-link order with the head pointer.  Only    *)
(* the owner pushes and pops, so a cell's `previous` is the cell before    *)
(* it in the list.                                                         *)
(***************************************************************************)
MarkStack_new == [cells |-> <<NULL>>, head |-> 1]

RECURSIVE push_scan(_, _, _)
push_scan(s, cur, data) ==
    IF s.cells[cur] = NULL
    THEN [s EXCEPT !.cells[cur] = data]
    ELSE IF cur < Len(s.cells)
    THEN push_scan(s, cur + 1, data)
    ELSE [cells |-> Append(s.cells, data), head |-> Len(s.cells) + 1]

MarkStack_push(s, data) == push_scan(s, s.head, data)

RECURSIVE pop_scan(_, _)
pop_scan(s, cur) ==
    IF s.cells[cur] # NULL
    THEN [val |-> <<s.cells[cur]>>,
          s |-> [cells |-> [s.cells EXCEPT ![cur] = NULL],
                 head |-> IF cur > 1 THEN cur - 1 ELSE s.head]]
    ELSE IF cur = 1
    THEN [val |-> <<>>, s |-> s]
    ELSE pop_scan(s, cur - 1)

MarkStack_pop(s) == pop_scan(s, s.head)

RECURSIVE peek_scan(_, _)
peek_scan(s, cur) ==
    IF s.cells[cur] # NULL THEN <<s.cells[cur]>>
    ELSE IF cur = 1 THEN <<>>
    ELSE peek_scan(s, cur - 1)

MarkStack_peek(s) == peek_scan(s, s.head)

RECURSIVE empty_scan(_, _)
empty_scan(s, cur) ==
    IF s.cells[cur] # NULL THEN FALSE
    ELSE IF cur = 1 THEN TRUE
    ELSE empty_scan(s, cur - 1)

MarkStack_is_empty(s) == empty_scan(s, s.head)

\* iter: from the first cell forward, ending at the first cell holding null.
RECURSIVE iter_scan(_, _)
iter_scan(s, cur) ==
    IF cur > Len(s.cells) \/ s.cells[cur] = NULL
    THEN <<>>
    ELSE <<s.cells[cur]>> \o iter_scan(s, cur + 1)

MarkStack_iter(s) == iter_scan(s, 1)

RECURSIVE push_all(_, _)
push_all(s, ptrs) ==
    IF ptrs = <<>> THEN s ELSE push_all(MarkStack_push(s, Head(ptrs)), Tail(ptrs))

RECURSIVE pop_n(_, _)
pop_n(s, n) == IF n = 0 THEN s ELSE pop_n(MarkStack_pop(s).s, n - 1)

(***************************************************************************)
(* The allocator.                                                          *)
(***************************************************************************)
Nodes == 1..cfg.page_size

\* Local::default.  A thread's context is materialised by its first
\* get_or_default(); until then local.iter() does not yield it.
Local_default(size) ==
    [exists |-> FALSE,
     phase_index |-> 0,
     dirty |-> 0,
     hazard_ptr_frames |-> <<HazardPtrFrame_new, HazardPtrFrame_new>>,
     arbiter |-> 0,
     alloc |-> AllocationBuffer_new(size),
     cur_traced |-> NULL,
     mark_stack |-> MarkStack_new]

get_or_default(l) == [l EXCEPT !.exists = TRUE]

NoSnap == [t \in Threads |-> [in |-> FALSE, phase |-> 0, traced |-> NULL]]

ThIdle ==
    [op |-> "none", pc |-> "idle", res |-> "none", held |-> NULL,
     restart_due |-> FALSE,
     lphase |-> 0, it |-> 0, raw |-> 0, roots |-> <<>>, obj |-> NULL,
     pushed |-> 0, snap |-> NoSnap, ptrs |-> <<>>, next_arbiter |-> 0,
     arb0 |-> 0, had |-> {}, missed |-> FALSE]

\* The call of thread record r has ended with result res.  The caller keeps
\* the handle it holds and whether it was told to restart.
Done(r, res) ==
    [ThIdle EXCEPT !.op = r.op, !.res = res, !.held = r.held,
                   !.restart_due = (res = "restart")]

\* A panic (todo!(), unwrap on None, expect) ends the thread.
Aborted(r) == [Done(r, "panic") EXCEPT !.pc = "aborted"]

\* The operation and result of a call are those of the step that returned:
\* the next step of the program forgets them.
Settle(r) ==
    IF r.pc \in {"idle", "aborted"}
    THEN [ThIdle EXCEPT !.pc = r.pc, !.held = r.held, !.restart_due = r.restart_due]
    ELSE r

Settled(q) == [t \in Threads |-> Settle(q[t])]

\* No data structure is exercised alone.
NoUnit == <<>>

HistInit ==
    [seen |-> [t \in Threads |-> {}],
     swept |-> [t \in Threads |-> {}],
     garbage |-> [t \in Threads |-> {}],
     leaked |-> [t \in Threads |-> {}],
     realloc |-> FALSE,
     fresh |-> {},
     allocs |-> 0,
     stages |-> 0,
     rounds |-> 0]

\* The calls of allocate, begin_write_only and force_gc so far.
Calls == hist.allocs + hist.stages + hist.rounds

\* Allocator::new before its sweep(): thread 1 constructs.
AllocInit(size, page_size) ==
    /\ cfg = [buffer_size |-> size, page_size |-> page_size]
    /\ phase_index = 0
    /\ sweep_chunk_index = 0
    /\ marker = [n \in 1..page_size |-> NodeMarks_into([phase |-> 0, marked |-> FALSE])]
    /\ payload = [n \in 1..page_size |-> Uninit]
    /\ globals = NULL
    /\ local = [t \in Threads |-> Local_default(size)]
    /\ th = [t \in Threads |->
                IF t = 1 THEN [ThIdle EXCEPT !.op = "new", !.pc = "sweep"] ELSE ThIdle]
    /\ hist = HistInit

Constructed == ~(th[1].op = "new" /\ th[1].pc # "idle")

CanCall(t) == Constructed /\ th[t].pc = "idle"

InRound(r) == r.op = "force_gc" /\ r.pc # "idle" /\ r.pc # "aborted"

(***************************************************************************)
(* The client (examples/linked_list.rs): a node is [data, next]; the       *)
(* globals are the list head.                                              *)
(***************************************************************************)
pointers(pl) == IF pl = Uninit THEN <<>> ELSE <<pl[1].next>>

untag_ptr(ptr) == ptr

get_globals(head) == <<head>>

SeqSet(q) == {q[i] : i \in 1..Len(q)}

RECURSIVE Closure(_, _, _)
Closure(S, pl, k) ==
    LET T == S \cup (UNION {SeqSet(pointers(pl[n])) : n \in S} \ {NULL})
    IN  IF k = 0 \/ T = S THEN S ELSE Closure(T, pl, k - 1)

\* The root pointers: the globals and every slot of every hazard frame.
Roots(g, loc) ==
    (SeqSet(get_globals(g))
       \cup UNION {SeqSet(loc[t].hazard_ptr_frames[1]) \cup SeqSet(loc[t].hazard_ptr_frames[2])
                     : t \in Threads}) \ {NULL}

Reachable(g, loc, pl) == Closure(Roots(g, loc), pl, Len(pl))

\* The nodes allocate has handed out.
Handed(pl) == {n \in 1..Len(pl) : pl[n] # Uninit}

\* The pointers held in a thread-local buffer or in a SET cell of the pool.
InBuffers(loc, p) ==
    UNION {BufferPtrs(loc[t].alloc) : t \in Threads}
      \cup UNION {BufferPtrs(p.cells[i].data[1]) :
                    i \in {j \in 1..Len(p.cells) : p.cells[j].state = SET}}

\* The history of the rounds after a step: per round, the nodes seen
\* reachable since its phase advance, the nodes its sweep put into a buffer
\* (`ins` for the stepping thread t), the handed-out nodes unreachable since
\* its start and, when it ends, those of them it returned to no buffer.
HistStep(t, ins, realloc, d_allocs, d_stages) ==
    LET reach == Reachable(globals', local', payload')
        starts(r) == InRound(th'[r]) /\ ~InRound(th[r])
        ends(r) == ~InRound(th'[r]) /\ InRound(th[r])
        sw(r) == IF r = t /\ th[r].op = "force_gc" THEN hist.swept[r] \cup ins
                 ELSE hist.swept[r]
        gb(r) == IF starts(r) THEN Handed(payload') \ reach
                 ELSE hist.garbage[r] \ reach
        got == IF th'[t].op = "allocate" /\ th'[t].res = "ok" THEN {th'[t].held} ELSE {}
    IN  hist' =
          [seen |-> [r \in Threads |->
                        IF ~InRound(th'[r]) THEN {}
                        ELSE IF starts(r) THEN reach
                        ELSE hist.seen[r] \cup reach],
           swept |-> [r \in Threads |-> IF InRound(th'[r]) THEN sw(r) ELSE {}],
           garbage |-> [r \in Threads |-> IF InRound(th'[r]) THEN gb(r) ELSE {}],
           leaked |-> [r \in Threads |->
                        IF starts(r) THEN {}
                        ELSE IF ends(r) /\ th'[r].pc = "idle"
                        THEN gb(r) \ (sw(r) \cup InBuffers(local', pool'))
                        ELSE hist.leaked[r]],
           realloc |-> hist.realloc \/ realloc,
           fresh |-> (hist.fresh \cup ins) \ got,
           allocs |-> hist.allocs + d_allocs,
           stages |-> hist.stages + d_stages,
           rounds |-> hist.rounds + (IF starts(t) THEN 1 ELSE 0)]

NoHist(t) == HistStep(t, {}, FALSE, 0, 0)

(***************************************************************************)
(* allocate(data): the whole handler.  The pool's pop runs without         *)
(* interference here; its interleavings are those of SpecPool.             *)
(***************************************************************************)
Allocate(t, d, nx) ==
    /\ CanCall(t)
    /\ hist.allocs < MaxAllocs
    /\ Calls < MaxCalls
    /\ UNCHANGED <<cfg, phase_index, sweep_chunk_index, marker, globals, poolVars, unit>>
    /\ LET l0 == get_or_default(local[t])
           refill == AllocationBuffer_is_empty(l0.alloc)
           pr == pool_run(pool, pop_call(l0.phase_index))
           l1 == IF refill /\ pr.o.res = "ok"
                 THEN [l0 EXCEPT !.alloc = pr.o.out[1]] ELSE l0
           bp == AllocationBuffer_pop(l1.alloc)
           r == [Settle(th[t]) EXCEPT !.op = "allocate"]
       IN  /\ pool' = IF refill THEN pr.p ELSE pool
           /\ IF (refill /\ pr.o.res # "ok") \/ bp.val = <<>> \/ bp.val = <<NULL>>
              THEN /\ local' = [local EXCEPT ![t] = l0]
                   /\ th' = [Settled(th) EXCEPT ![t] = Aborted(r)]
                   /\ UNCHANGED payload
                   /\ HistStep(t, {}, FALSE, 1, 0)
              ELSE /\ local' = [local EXCEPT ![t] = [l1 EXCEPT !.alloc = bp.b]]
                   /\ payload' = [payload EXCEPT ![bp.val[1]] = Init_([data |-> d, next |-> nx])]
                   /\ th' = [Settled(th) EXCEPT ![t] = [Done(r, "ok") EXCEPT !.held = bp.val[1]]]
                   /\ HistStep(t, {}, bp.val[1] \in Reachable(globals, local, payload), 1, 0)

\* The client stores the handle it holds into the list head.
ClientPublish(t) ==
    /\ CanCall(t)
    /\ th[t].held # NULL
    /\ globals # th[t].held
    /\ globals' = th[t].held
    /\ th' = Settled(th)
    /\ UNCHANGED <<cfg, phase_index, sweep_chunk_index, marker, payload, local,
                   pool, poolVars, unit>>
    /\ NoHist(t)

\* The client overwrites the list head with null.
ClientDrop(t) ==
    /\ CanCall(t)
    /\ globals # NULL
    /\ globals' = NULL
    /\ th' = Settled(th)
    /\ UNCHANGED <<cfg, phase_index, sweep_chunk_index, marker, payload, local,
                   pool, poolVars, unit>>
    /\ NoHist(t)

(***************************************************************************)
(* begin_write_only(local_ptrs): stage into the frame arbiter.next()       *)
(* selects, then read the dirty word and publish the arbiter.              *)
(***************************************************************************)
Bwo_stage(t, ptrs) ==
    /\ CanCall(t)
    /\ hist.stages < MaxStage
    /\ Calls < MaxCalls
    /\ LET l0 == get_or_default(local[t])
           next_arbiter == Arbiter_next(l0.arbiter)
           frame == l0.hazard_ptr_frames[next_arbiter + 1]
           staged == [l0 EXCEPT !.hazard_ptr_frames[next_arbiter + 1] =
                                   HazardPtrFrame_store(frame, ptrs[1])]
       IN  /\ local' = [local EXCEPT ![t] = staged]
           /\ th' = [Settled(th) EXCEPT ![t] = [@ EXCEPT !.op = "begin_write_only",
                        !.pc = "bwo_check", !.res = "none", !.ptrs = ptrs,
                        !.next_arbiter = next_arbiter, !.arb0 = l0.arbiter]]
    /\ UNCHANGED <<cfg, phase_index, sweep_chunk_index, marker, payload, globals,
                   pool, poolVars, unit>>
    /\ HistStep(t, {}, FALSE, 0, 1)

\* begin_write_only with the test of the dirty bit inverted.
begin_write_only_inverted(dirty) == IF dirty.dirty THEN "ok" ELSE "restart"

begin_write_only_result(dirty) == IF dirty.dirty THEN "restart" ELSE "ok"

Bwo_check(t) ==
    /\ th[t].pc = "bwo_check"
    /\ LET dirty == DirtyValue_from_u64(local[t].dirty)
           res == begin_write_only_result(dirty)
       IN  /\ local' = IF res = "ok"
                       THEN [local EXCEPT ![t].arbiter = th[t].next_arbiter]
                       ELSE local
           /\ th' = [Settled(th) EXCEPT ![t] = Done(@, res)]
    /\ UNCHANGED <<cfg, phase_index, sweep_chunk_index, marker, payload, globals,
                   pool, poolVars, unit>>
    /\ NoHist(t)

\* validate_read without the test of the dirty bit.
validate_read_unchecked(dirty) == "ok"

validate_read_result(dirty) == IF dirty.dirty THEN "restart" ELSE "ok"

ValidateRead(t) ==
    /\ CanCall(t)
    /\ LET l0 == get_or_default(local[t])
           dirty == DirtyValue_from_u64(l0.dirty)
       IN  /\ local' = [local EXCEPT ![t] = l0]
           /\ th' = [Settled(th) EXCEPT ![t] =
                        Done([@ EXCEPT !.op = "validate_read"], validate_read_result(dirty))]
    /\ UNCHANGED <<cfg, phase_index, sweep_chunk_index, marker, payload, globals,
                   pool, poolVars, unit>>
    /\ NoHist(t)

\* restart(): get_or_default(), then todo!().  The client calls it when an
\* operation has answered restart.
Restart(t) ==
    /\ CanCall(t)
    /\ th[t].restart_due
    /\ local' = [local EXCEPT ![t] = get_or_default(@)]
    /\ th' = [Settled(th) EXCEPT ![t] = Aborted([@ EXCEPT !.op = "restart"])]
    /\ UNCHANGED <<cfg, phase_index, sweep_chunk_index, marker, payload, globals,
                   pool, poolVars, unit>>
    /\ NoHist(t)

(***************************************************************************)
(* force_gc(): reclaimation() = init_reclaimation, update_marks,           *)
(* clear_alloc_pools, gather_roots, trace, sweep.                          *)
(***************************************************************************)
\* The global phase advanced whatever the caller's local phase is.
init_fetch_add(global, lphase_index) == global + 1

\* init_reclaimation: phase_index.compare_exchange(lphase_index,
\* lphase_index + 1); the new global phase.
init_cas(global, lphase_index) ==
    IF global = lphase_index THEN lphase_index + 1 ELSE global

\* init_reclaimation: the CAS on the global phase.
Gc_init_cas(t) ==
    /\ CanCall(t)
    /\ hist.rounds < MaxRounds
    /\ Calls < MaxCalls
    /\ LET l0 == get_or_default(local[t])
           lphase_index == l0.phase_index
       IN  /\ phase_index' = init_cas(phase_index, lphase_index)
           /\ local' = [local EXCEPT ![t] = l0]
           /\ th' = [Settled(th) EXCEPT ![t] = [ThIdle EXCEPT !.op = "force_gc",
                        !.pc = "init_load", !.held = th[t].held,
                        !.lphase = lphase_index,
                        !.had = {u \in Threads : u = t \/ local[u].exists}]]
    /\ UNCHANGED <<cfg, sweep_chunk_index, marker, payload, globals, pool, poolVars, unit>>
    /\ NoHist(t)

\* init_reclaimation: republish the global phase into the local phase.
Gc_init_load(t) ==
    /\ th[t].pc = "init_load"
    /\ local' = [local EXCEPT ![t].phase_index = phase_index]
    /\ th' = [Settled(th) EXCEPT ![t].pc = "init_dirty", ![t].it = 1]
    /\ UNCHANGED <<cfg, phase_index, sweep_chunk_index, marker, payload, globals,
                   pool, poolVars, unit>>
    /\ NoHist(t)

\* The dirty word of one thread after the loop body of init_reclaimation.
init_dirty(raw, lphase_index) ==
    LET t_dirty == DirtyValue_from_u64(raw)
    IN  IF t_dirty.phase < lphase_index
        THEN Udirty_update(raw, DirtyValue_to_u64(t_dirty),
                           [dirty |-> TRUE, phase |-> lphase_index])
        ELSE raw

\* init_reclaimation: one iteration of `for thread in self.local.iter()`.
Gc_init_dirty(t) ==
    /\ th[t].pc = "init_dirty"
    /\ LET u == th[t].it
       IN  local' = IF local[u].exists
                    THEN [local EXCEPT ![u].dirty = init_dirty(@, th[t].lphase)]
                    ELSE local
    /\ th' = IF th[t].it < NThreads
             THEN [th EXCEPT ![t].it = @ + 1]
             ELSE [th EXCEPT ![t].pc = "um_load", ![t].it = 1, ![t].had = {}]
    /\ UNCHANGED <<cfg, phase_index, sweep_chunk_index, marker, payload, globals,
                   pool, poolVars, unit>>
    /\ NoHist(t)

\* The next node of Page::update_marks, or clear_alloc_pools after the last.
NextMark(r) ==
    IF r.it < cfg.page_size
    THEN [r EXCEPT !.pc = "um_load", !.it = @ + 1]
    ELSE [r EXCEPT !.pc = "clear_pools", !.it = 0, !.raw = 0]

\* PageNode::clear_marks: the load of the marker.
Gc_um_load(t) ==
    /\ th[t].pc = "um_load"
    /\ LET previous_marks_raw == marker[th[t].it]
           previous_marks == NodeMarks_from(previous_marks_raw)
       IN  th' = IF previous_marks.phase >= local[t].phase_index
                 THEN [th EXCEPT ![t] = NextMark(@)]
                 ELSE [th EXCEPT ![t].pc = "um_cas", ![t].raw = previous_marks_raw]
    /\ UNCHANGED <<cfg, phase_index, sweep_chunk_index, marker, payload, globals,
                   local, pool, poolVars, unit>>
    /\ NoHist(t)

clear_marks_store(raw, previous_marks_raw, n_phase) ==
    NodeMarks_into([phase |-> n_phase, marked |-> FALSE])

\* PageNode::clear_marks: the CAS of the marker; a failure is only logged.
clear_marks_cas(raw, previous_marks_raw, n_phase) ==
    IF raw = previous_marks_raw
    THEN NodeMarks_into([phase |-> n_phase, marked |-> FALSE])
    ELSE raw

Gc_um_cas(t) ==
    /\ th[t].pc = "um_cas"
    /\ marker' = [marker EXCEPT ![th[t].it] =
                     clear_marks_cas(@, th[t].raw, local[t].phase_index)]
    /\ th' = [Settled(th) EXCEPT ![t] = NextMark(@)]
    /\ UNCHANGED <<cfg, phase_index, sweep_chunk_index, payload, globals, local,
                   pool, poolVars, unit>>
    /\ NoHist(t)

\* clear_alloc_pools: pool.update_phase(local_phase), its result only logged.
Gc_clear_pools(t) ==
    /\ th[t].pc = "clear_pools"
    /\ pool' = pool_run(pool, update_phase_call(local[t].phase_index)).p
    /\ th' = [Settled(th) EXCEPT ![t].pc = "gather_local"]
    /\ UNCHANGED <<cfg, phase_index, sweep_chunk_index, marker, payload, globals,
                   local, poolVars, unit>>
    /\ NoHist(t)

RECURSIVE local_roots(_, _)
local_roots(loc, u) ==
    IF u > NThreads THEN <<>>
    ELSE (IF loc[u].exists
          THEN HazardPtrFrame_roots(loc[u].hazard_ptr_frames[1])
                 \o HazardPtrFrame_roots(loc[u].hazard_ptr_frames[2])
          ELSE <<>>) \o local_roots(loc, u + 1)

UntagAll(q) == [i \in 1..Len(q) |-> untag_ptr(q[i])]

\* gather_roots: local_roots().
Gc_gather_local(t) ==
    /\ th[t].pc = "gather_local"
    /\ th' = [Settled(th) EXCEPT ![t].pc = "gather_global",
                        ![t].roots = UntagAll(local_roots(local, 1))]
    /\ UNCHANGED <<cfg, phase_index, sweep_chunk_index, marker, payload, globals,
                   local, pool, poolVars, unit>>
    /\ NoHist(t)

\* gather_roots: result.extend(global_roots()).
Gc_gather_global(t) ==
    /\ th[t].pc = "gather_global"
    /\ th' = [Settled(th) EXCEPT ![t].pc = "trace_push",
                        ![t].roots = @ \o get_globals(globals)]
    /\ UNCHANGED <<cfg, phase_index, sweep_chunk_index, marker, payload, globals,
                   local, pool, poolVars, unit>>
    /\ NoHist(t)

\* trace: push the roots onto the caller's mark stack.
Gc_trace_push(t) ==
    /\ th[t].pc = "trace_push"
    /\ local' = [local EXCEPT ![t].mark_stack = push_all(@, th[t].roots)]
    /\ th' = [Settled(th) EXCEPT ![t].pc = "mark_peek"]
    /\ UNCHANGED <<cfg, phase_index, sweep_chunk_index, marker, payload, globals,
                   pool, poolVars, unit>>
    /\ NoHist(t)

\* mark_node: peek and load the marks; Done leads to finish_or_progress.
Gc_mark_peek(t) ==
    /\ th[t].pc = "mark_peek"
    /\ LET top == MarkStack_peek(local[t].mark_stack)
           marks == NodeMarks_from(marker[top[1]])
       IN  IF top = <<>>
           THEN /\ th' = [Settled(th) EXCEPT ![t].pc = "fop1", ![t].it = 1, ![t].snap = NoSnap,
                                    ![t].obj = NULL, ![t].pushed = 0]
                /\ UNCHANGED local
           ELSE IF marks.marked \/ marks.phase # local[t].phase_index
           THEN /\ local' = [local EXCEPT ![t].mark_stack = MarkStack_pop(@).s]
                /\ th' = Settled(th)
           ELSE /\ th' = [Settled(th) EXCEPT ![t].pc = "mark_pub", ![t].obj = top[1]]
                /\ UNCHANGED local
    /\ UNCHANGED <<cfg, phase_index, sweep_chunk_index, marker, payload, globals,
                   pool, poolVars, unit>>
    /\ NoHist(t)

NonNull(q) == SelectSeq(q, LAMBDA x : x # NULL)

\* mark_node: publish cur_traced, pop, push the non-null children.
Gc_mark_pub(t) ==
    /\ th[t].pc = "mark_pub"
    /\ LET children == NonNull(pointers(payload[th[t].obj]))
       IN  /\ local' = [local EXCEPT ![t].cur_traced = th[t].obj,
                           ![t].mark_stack = push_all(MarkStack_pop(@).s, children)]
           /\ th' = [Settled(th) EXCEPT ![t].pc = "mark_cas", ![t].pushed = Len(children)]
    /\ UNCHANGED <<cfg, phase_index, sweep_chunk_index, marker, payload, globals,
                   pool, poolVars, unit>>
    /\ NoHist(t)

\* mark_node: the marking CAS; on failure the pushed children are popped.
Gc_mark_cas(t) ==
    /\ th[t].pc = "mark_cas"
    /\ LET lp == local[t].phase_index
           c == PageNode_update_marks(marker[th[t].obj],
                    [phase |-> lp, marked |-> FALSE], [phase |-> lp, marked |-> TRUE])
       IN  /\ marker' = [marker EXCEPT ![th[t].obj] = c.raw]
           /\ local' = IF c.ok THEN local
                       ELSE [local EXCEPT ![t].mark_stack = pop_n(@, th[t].pushed)]
    /\ th' = [Settled(th) EXCEPT ![t].pc = "mark_peek", ![t].obj = NULL, ![t].pushed = 0]
    /\ UNCHANGED <<cfg, phase_index, sweep_chunk_index, payload, globals, pool, poolVars, unit>>
    /\ NoHist(t)

\* help that pushes nothing.
help_no_push(t, node) ==
    /\ th' = [Settled(th) EXCEPT ![t].pc = "mark_peek", ![t].it = 0, ![t].snap = NoSnap,
                              ![t].missed = FALSE]
    /\ UNCHANGED local

\* help(local, node): push onto the caller's own mark stack, or todo!().
help(t, node) ==
    IF local[t].phase_index = phase_index
    THEN /\ local' = [local EXCEPT ![t].mark_stack = MarkStack_push(@, node)]
         /\ th' = [Settled(th) EXCEPT ![t].pc = "mark_peek", ![t].it = 0, ![t].snap = NoSnap,
                              ![t].missed = FALSE]
    ELSE /\ th' = [Settled(th) EXCEPT ![t] = Aborted(@)]
         /\ UNCHANGED local

\* finish_or_progress returns false: trace loops.
fop_false(t) ==
    /\ th' = [Settled(th) EXCEPT ![t].pc = "mark_peek", ![t].it = 0, ![t].snap = NoSnap,
                              ![t].missed = FALSE]
    /\ UNCHANGED local

\* The next thread of a block of finish_or_progress, or the next block.
fop_next(t, block, snap) ==
    /\ th' = IF th[t].it < NThreads
             THEN [th EXCEPT ![t].it = @ + 1, ![t].snap = snap]
             ELSE [th EXCEPT ![t].pc = block, ![t].it = 1, ![t].snap = snap,
                             ![t].missed = (@ /\ block # "sweep")]
    /\ UNCHANGED local

\* finish_or_progress, first block: one iteration over local.iter().
Gc_fop1(t) ==
    /\ th[t].pc = "fop1"
    /\ LET u == th[t].it
           tmp_phase == local[u].phase_index
           tmp_cur_traced == local[u].cur_traced
           snap == [th[t].snap EXCEPT ![u] =
                       [in |-> TRUE, phase |-> tmp_phase, traced |-> tmp_cur_traced]]
           marks == NodeMarks_from(marker[tmp_cur_traced])
       IN  IF ~local[u].exists \/ tmp_cur_traced = NULL
           THEN fop_next(t, "fop2", th[t].snap)
           ELSE IF tmp_phase = local[t].phase_index /\ ~marks.marked
           THEN help(t, tmp_cur_traced)
           ELSE fop_next(t, "fop2", snap)
    /\ UNCHANGED <<cfg, phase_index, sweep_chunk_index, marker, payload, globals,
                   pool, poolVars, unit>>
    /\ NoHist(t)

Unmarked(q) == SelectSeq(q, LAMBDA n : ~NodeMarks_from(marker[n]).marked)

\* Thread u is in phase p and an unmarked node is in a cell of its mark stack.
StackUnmarked(u, p) ==
    /\ local[u].exists
    /\ local[u].phase_index = p
    /\ \E n \in SeqSet(local[u].mark_stack.cells) \ {NULL} :
          ~NodeMarks_from(marker[n]).marked

\* The second block goes on to the next thread, or to the third block; q is
\* th with what this iteration passed over.
fop_step(q, t, block) ==
    /\ th' = IF q[t].it < NThreads
             THEN [q EXCEPT ![t].it = @ + 1]
             ELSE [q EXCEPT ![t].pc = block, ![t].it = 1]
    /\ UNCHANGED local

\* finish_or_progress, second block: one thread's mark stack.
Gc_fop2(t) ==
    /\ th[t].pc = "fop2"
    /\ LET u == th[t].it
           todo == Unmarked(MarkStack_iter(local[u].mark_stack))
           passed == [th EXCEPT ![t].missed = @ \/ StackUnmarked(u, local[t].phase_index)]
       IN  IF ~local[u].exists \/ ~th[t].snap[u].in
                \/ th[t].snap[u].phase # local[t].phase_index
           THEN fop_step(passed, t, "fop3")
           ELSE IF todo # <<>>
           THEN help(t, todo[1])
           ELSE fop_step(passed, t, "fop3")
    /\ UNCHANGED <<cfg, phase_index, sweep_chunk_index, marker, payload, globals,
                   pool, poolVars, unit>>
    /\ NoHist(t)

\* finish_or_progress, third block: re-read one thread; true after the last.
Gc_fop3(t) ==
    /\ th[t].pc = "fop3"
    /\ LET u == th[t].it
       IN  IF ~local[u].exists \/ ~th[t].snap[u].in
           THEN fop_next(t, "sweep", NoSnap)
           ELSE IF th[t].snap[u].traced # local[u].cur_traced
                     \/ th[t].snap[u].phase # local[u].phase_index
           THEN fop_false(t)
           ELSE fop_next(t, "sweep", NoSnap)
    /\ UNCHANGED <<cfg, phase_index, sweep_chunk_index, marker, payload, globals,
                   pool, poolVars, unit>>
    /\ NoHist(t)

(***************************************************************************)
(* sweep(): also run once by Allocator::new.                               *)
(***************************************************************************)
\* get_page handing out the page again when the cursor is of an older phase.
get_page_stale_phase(cursor, local_phase) ==
    LET d == index_data(cursor)
    IN  IF d[1] # local_phase
        THEN [page |-> <<0>>, cursor |-> cursor]
        ELSE IF d[2] >= PAGE_COUNT
        THEN [page |-> <<>>, cursor |-> cursor]
        ELSE [page |-> <<d[2]>>, cursor |-> cursor + 1]

\* PageList::get_page: <<page index>> or <<>> for None, with the new cursor.
get_page(cursor, local_phase) ==
    LET d == index_data(cursor)
    IN  IF d[2] >= PAGE_COUNT \/ d[1] # local_phase
        THEN [page |-> <<>>, cursor |-> cursor]
        ELSE [page |-> <<d[2]>>, cursor |-> cursor + 1]

Sweep_get_page(t) ==
    /\ th[t].pc = "sweep"
    /\ LET l0 == get_or_default(local[t])
           g == get_page(sweep_chunk_index, l0.phase_index)
       IN  /\ sweep_chunk_index' = g.cursor
           /\ local' = [local EXCEPT ![t] = l0]
           /\ th' = IF g.page = <<>>
                    THEN [th EXCEPT ![t] = Done(@, "ok")]
                    ELSE [th EXCEPT ![t].pc = "sweep_node", ![t].it = 1]
    /\ UNCHANGED <<cfg, phase_index, marker, payload, globals, pool, poolVars, unit>>
    /\ NoHist(t)

\* Local::sweep_page, the loop body for one node: the local buffer and the
\* pool after it, and whether the node went into the buffer.
sweep_node(l, p, node, marks) ==
    LET ins == AllocationBuffer_insert(l.alloc, node)
        swapped == pool_run(p, insert_call(ins.b, l.phase_index)).p
        again == AllocationBuffer_insert(AllocationBuffer_new(cfg.buffer_size), node)
    IN  IF marks.marked
        THEN [alloc |-> l.alloc, pool |-> p, ins |-> {}, ok |-> TRUE]
        ELSE IF ins.ok
        THEN [alloc |-> ins.b, pool |-> p, ins |-> {node}, ok |-> TRUE]
        ELSE [alloc |-> again.b, pool |-> swapped, ins |-> {node}, ok |-> again.ok]

Sweep_node(t) ==
    /\ th[t].pc = "sweep_node"
    /\ UNCHANGED <<cfg, phase_index, sweep_chunk_index, marker, payload, globals,
                   poolVars, unit>>
    /\ LET n == th[t].it
           s == sweep_node(local[t], pool, n, NodeMarks_from(marker[n]))
       IN  /\ local' = [local EXCEPT ![t].alloc = s.alloc]
           /\ pool' = s.pool
           /\ th' = IF ~s.ok
                    THEN [th EXCEPT ![t] = Aborted(@)]
                    ELSE IF n < cfg.page_size
                    THEN [th EXCEPT ![t].it = @ + 1]
                    ELSE [th EXCEPT ![t].pc = "sweep", ![t].it = 0]
           /\ HistStep(t, s.ins, FALSE, 0, 0)

\* The history of the calls on the pool: the values whose insert returned
\* ok, the values popped, whether update_phase was called, the number of
\* calls, and per call the phase of its insert (-1 for another call).
PoolHistInit ==
    [ok_ins |-> {}, popped |-> <<>>, updated |-> FALSE, calls |-> 0,
     ins_phase |-> <<>>]

(***************************************************************************)
(* Spec: the allocator under two threads.  SpecSeed: Allocator::new alone, *)
(* with the sizes of the code.                                             *)
(***************************************************************************)
Init ==
    /\ pool = Pool_new
    /\ pool_op = [t \in Threads |-> PoolIdle]
    /\ pool_hist = PoolHistInit
    /\ AllocInit(SmallBuffer, SmallPage)
    /\ unit = NoUnit

SeedInit ==
    /\ pool = Pool_new
    /\ pool_op = [t \in Threads |-> PoolIdle]
    /\ pool_hist = PoolHistInit
    /\ AllocInit(BUFFER_SIZE, PAGE_SIZE)
    /\ unit = NoUnit

ClientPtrs(t) == {th[t].held, globals} \ {NULL}

Next ==
    \E t \in Threads :
        \/ \E nx \in {NULL, globals} : Allocate(t, 1, nx)
        \/ ClientPublish(t)
        \/ ClientDrop(t)
        \/ \E p \in ClientPtrs(t) : Bwo_stage(t, <<p>>)
        \/ Bwo_check(t)
        \/ ValidateRead(t)
        \/ Restart(t)
        \/ Gc_init_cas(t)
        \/ Gc_init_load(t)
        \/ Gc_init_dirty(t)
        \/ Gc_um_load(t)
        \/ Gc_um_cas(t)
        \/ Gc_clear_pools(t)
        \/ Gc_gather_local(t)
        \/ Gc_gather_global(t)
        \/ Gc_trace_push(t)
        \/ Gc_mark_peek(t)
        \/ Gc_mark_pub(t)
        \/ Gc_mark_cas(t)
        \/ Gc_fop1(t)
        \/ Gc_fop2(t)
        \/ Gc_fop3(t)
        \/ Sweep_get_page(t)
        \/ Sweep_node(t)

Spec == Init /\ [][Next]_vars

\* The data of the first allocations on the fresh allocator.
SeedData == {13, 14}

SeedNext ==
    \/ Sweep_get_page(1)
    \/ Sweep_node(1)
    \/ \E t \in Threads, d \in SeedData : Allocate(t, d, NULL)

SpecSeed == SeedInit /\ [][SeedNext]_vars

(***************************************************************************)
(* Claims about the allocator, checked under Spec.                         *)
(***************************************************************************)
\* A round that has finished init_reclaimation and not yet its sweep.
RoundInProgress(r) == InRound(r) /\ r.pc \notin {"init_load", "init_dirty"}

\* A round that has not yet read the hazard frames in gather_roots.
BeforeGather(r) == r.pc \in {"um_load", "um_cas", "clear_pools", "gather_local"}

DirtyBit(t) == get_or_default(local[t]).dirty % 2 = 1

\* C1.  A node reachable from the globals or a hazard frame at some moment
\* of a round (from its phase advance on) is not put into a buffer by that
\* round's sweep, and allocate hands out no node that is reachable.
C1_ReachableNeverSwept ==
    /\ \A r \in Threads : hist.seen[r] \cap hist.swept[r] = {}
    /\ ~hist.realloc

\* A round has reached its sweep having seen a reachable node.
C1_Witness ==
    \E r \in Threads :
        th[r].op = "force_gc" /\ th[r].pc = "sweep" /\ hist.seen[r] # {}

\* C2.  When a force_gc returns, every node that was handed out and was
\* unreachable during the whole round is in an allocation buffer (a local
\* buffer or a SET cell of the pool).
C2_GarbageReclaimed == \A r \in Threads : hist.leaked[r] = {}

\* C3.  When begin_write_only(ptrs) returns ok on thread m, every round of
\* another thread that is in progress has not yet gathered its roots or has
\* gathered roots that contain every pointer of ptrs.
C3_StagedSeenOrRestart ==
    [][\A m \in Threads :
          (th[m].pc = "bwo_check" /\ th'[m].pc = "idle" /\ th'[m].res = "ok")
            => \A r \in Threads \ {m} :
                  RoundInProgress(th[r])
                    => \/ BeforeGather(th[r])
                       \/ SeqSet(th[m].ptrs) \subseteq SeqSet(th[r].roots)]_vars

\* C4.  begin_write_only returns restart iff the caller's dirty bit is set
\* when the dirty word is read after staging, and on restart the arbiter
\* has the value it had when the call began.
C4_RestartIffDirty ==
    [][\A t \in Threads :
          (th[t].pc = "bwo_check" /\ th'[t].pc # "bwo_check")
            => /\ th'[t].res \in {"ok", "restart"}
               /\ th'[t].res = "restart" <=> local[t].dirty % 2 = 1
               /\ th'[t].res = "restart" => local'[t].arbiter = th[t].arb0]_vars

\* A begin_write_only has returned restart.
C4_Witness ==
    \E t \in Threads :
        th[t].op = "begin_write_only" /\ th[t].pc = "idle" /\ th[t].res = "restart"

\* C5.  begin_write_only stages into the frame whose index differs from the
\* arbiter's value at the call.
C5_StagesOtherFrame ==
    \A t \in Threads : th[t].pc = "bwo_check" => th[t].next_arbiter # th[t].arb0

\* C6.  validate_read returns restart iff the caller's dirty bit is set, and
\* leaves the dirty words, arbiters, hazard frames, phases, buffers, mark
\* stacks, markers, cursor and pool as they were (a thread without a Local
\* counts as having the default one).
C6_ValidateReadPure ==
    [][\A t \in Threads :
          (th'[t].op = "validate_read" /\ th[t].op # "validate_read")
            => /\ th'[t].res = (IF DirtyBit(t) THEN "restart" ELSE "ok")
               /\ \A u \in Threads :
                     [get_or_default(local'[u]) EXCEPT !.exists = TRUE]
                       = [get_or_default(local[u]) EXCEPT !.exists = TRUE]
               /\ UNCHANGED <<phase_index, sweep_chunk_index, marker, payload,
                              globals, pool>>]_vars

\* A validate_read has returned restart.
C6_Witness ==
    \E t \in Threads :
        th[t].op = "validate_read" /\ th[t].pc = "idle" /\ th[t].res = "restart"

\* C7.  restart(), the safe point of a thread told to restart, returns with
\* the thread's dirty bit cleared.
C7_RestartClearsDirty ==
    \A t \in Threads :
        th[t].op = "restart" => th[t].pc = "idle" /\ ~DirtyBit(t)

\* C8.  allocate never aborts.
C8_AllocateNeverAborts ==
    \A t \in Threads : ~(th[t].op = "allocate" /\ th[t].pc = "aborted")

\* The buffers allocate can reach that hold node n: the constructing
\* thread's local buffer ("local") and the SET cells of phase 0 of the pool.
SeedHolders(n) ==
    (IF n \in BufferPtrs(local[1].alloc) THEN {"local"} ELSE {})
      \cup {i \in 1..Len(pool.cells) :
              /\ pool.cells[i].state = SET
              /\ pool.cells[i].phase = 0
              /\ n \in BufferPtrs(pool.cells[i].data[1])}

\* C9.  After construction every slot of the seed page is held in exactly
\* one allocation buffer that allocate can reach.
C9_SeedSlotsHeld ==
    (th[1].op = "new" /\ th[1].pc = "idle")
      => \A n \in 1..cfg.page_size : Cardinality(SeedHolders(n)) = 1

(***************************************************************************)
(* SpecPool: threads call insert, pop and update_phase on one pool and run *)
(* them one shared-memory step at a time.  Inserted values are distinct    *)
(* (1, 2, ...), so that a value can be followed through the pool.          *)
(***************************************************************************)
PoolInit ==
    /\ pool = Pool_new
    /\ pool_op = [t \in Threads |-> PoolIdle]
    /\ pool_hist = PoolHistInit
    /\ AllocInit(SmallBuffer, SmallPage)
    /\ unit = NoUnit

PoolCallInsert(t, phase) ==
    /\ pool_op[t].pc = "idle"
    /\ pool_hist.calls < MaxPoolCalls
    /\ pool_op' = [pool_op EXCEPT ![t] =
                      [insert_call(pool_hist.calls + 1, phase) EXCEPT !.floor = pool.phase]]
    /\ pool_hist' = [pool_hist EXCEPT !.calls = @ + 1,
                                      !.ins_phase = Append(@, phase)]
    /\ UNCHANGED <<pool, allocVars, unit>>

PoolCallPop(t, phase) ==
    /\ pool_op[t].pc = "idle"
    /\ pool_hist.calls < MaxPoolCalls
    /\ pool_op' = [pool_op EXCEPT ![t] =
                      [pop_call(phase) EXCEPT !.snap = pool_hist.ok_ins,
                                              !.floor = pool.phase]]
    /\ pool_hist' = [pool_hist EXCEPT !.calls = @ + 1,
                                      !.ins_phase = Append(@, -1)]
    /\ UNCHANGED <<pool, allocVars, unit>>

PoolCallUpdatePhase(t, n_phase) ==
    /\ pool_op[t].pc = "idle"
    /\ pool_hist.calls < MaxPoolCalls
    /\ pool_op' = [pool_op EXCEPT ![t] =
                      [update_phase_call(n_phase) EXCEPT !.floor = pool.phase]]
    /\ pool_hist' = [pool_hist EXCEPT !.calls = @ + 1, !.updated = TRUE,
                                      !.ins_phase = Append(@, -1)]
    /\ UNCHANGED <<pool, allocVars, unit>>

PoolStep(t) ==
    /\ pool_op[t].pc \notin {"idle", "ret"}
    /\ LET s == pool_step(pool, pool_op[t])
       IN  /\ pool' = s.p
           /\ pool_op' = [pool_op EXCEPT ![t] = s.o]
    /\ UNCHANGED <<pool_hist, allocVars, unit>>

\* The call returns to its caller.
PoolReturn(t) ==
    /\ pool_op[t].pc = "ret"
    /\ pool_hist' =
         IF pool_op[t].op = "insert" /\ pool_op[t].res = "ok"
         THEN [pool_hist EXCEPT !.ok_ins = @ \cup {pool_op[t].data}]
         ELSE IF pool_op[t].op = "pop" /\ pool_op[t].res = "ok"
         THEN [pool_hist EXCEPT !.popped = Append(@, pool_op[t].out[1])]
         ELSE pool_hist
    /\ pool_op' = [pool_op EXCEPT ![t] = PoolIdle]
    /\ UNCHANGED <<pool, allocVars, unit>>

PoolNext ==
    \E t \in Threads :
        \/ \E ph \in 0..MaxPoolPhase : PoolCallInsert(t, ph)
        \/ \E ph \in 0..MaxPoolPhase : PoolCallPop(t, ph)
        \/ \E ph \in 0..MaxPoolPhase : PoolCallUpdatePhase(t, ph)
        \/ PoolStep(t)
        \/ PoolReturn(t)

SpecPool == PoolInit /\ [][PoolNext]_vars

(***************************************************************************)
(* C10.  Pool round trip in a fixed phase: when a pop at the pool's phase  *)
(* reports Empty and the phase was never advanced, every value whose       *)
(* insert had returned ok before that pop was called has been returned by  *)
(* a pop (or is held by a pop still in flight), and no value is returned   *)
(* twice.                                                                  *)
(***************************************************************************)
PoppedSet == {pool_hist.popped[i] : i \in 1..Len(pool_hist.popped)}

HeldByPop(v) ==
    \E u \in Threads :
        /\ pool_op[u].op = "pop"
        /\ \/ pool_op[u].pc \in {"p_chk", "p_take"} /\ pool.cells[pool_op[u].cur].data = <<v>>
           \/ pool_op[u].pc = "ret" /\ pool_op[u].out = <<v>>

C10_RoundTrip ==
    ~pool_hist.updated =>
        /\ \A t \in Threads :
              (pool_op[t].op = "pop" /\ pool_op[t].pc = "ret" /\ pool_op[t].res = "Empty")
                 => \A v \in pool_op[t].snap : v \in PoppedSet \/ HeldByPop(v)
        /\ \A i, j \in 1..Len(pool_hist.popped) :
              pool_hist.popped[i] = pool_hist.popped[j] => i = j

(***************************************************************************)
(* Claims about the pool's phase, checked under SpecPool.                  *)
(***************************************************************************)
\* A pop that has returned Ok(v).
PopReturned(t, v) ==
    /\ pool_op[t].op = "pop"
    /\ pool_op[t].pc = "ret"
    /\ pool_op[t].res = "ok"
    /\ pool_op[t].out = <<v>>

\* C11.  A successful pop(phase) returns a value that was inserted with
\* that phase, and a pop called once the pool phase is x returns no value
\* inserted at a phase below x.
C11_PopSamePhase ==
    \A t \in Threads : \A v \in 1..pool_hist.calls :
        PopReturned(t, v)
          => /\ pool_hist.ins_phase[v] = pool_op[t].phase
             /\ pool_hist.ins_phase[v] >= pool_op[t].floor

\* After an insert at phase 0 and an update_phase, a pop at the new phase
\* has dropped the stale payload and reports Empty.
C11_Witness ==
    \E t \in Threads :
        /\ pool_op[t].op = "pop" /\ pool_op[t].pc = "ret" /\ pool_op[t].res = "Empty"
        /\ pool_op[t].phase > 0
        /\ \E v \in pool_hist.ok_ins : pool_hist.ins_phase[v] = 0
        /\ \A i \in 1..Len(pool.cells) : pool.cells[i].state # SET

\* C12.  update_phase(x) returns ok exactly when x is above the pool phase
\* at its compare-and-set, which then sets the phase to x; a rejected call
\* finds the phase at x or above and leaves it; the pool phase never
\* decreases.
C12_UpdatePhaseMonotone ==
    [][/\ pool'.phase >= pool.phase
       /\ \A t \in Threads :
             (pool_op[t].op = "update_phase" /\ pool_op[t].pc = "u_cas"
                /\ pool_op'[t].pc = "ret")
               => /\ pool_op'[t].res \in {"ok", "rejected"}
                  /\ pool_op'[t].res = "ok" <=> pool_op[t].phase > pool.phase
                  /\ pool_op'[t].res = "ok" => pool'.phase = pool_op[t].phase
                  /\ pool_op'[t].res = "rejected" => pool'.phase = pool.phase]_vars

\* Two update_phase(x) calls raced: one has returned ok, the other, called
\* while the phase was still below x, was rejected.
C12_Witness ==
    \E t, u \in Threads :
        /\ pool_op[t].op = "update_phase" /\ pool_op[t].pc = "ret" /\ pool_op[t].res = "ok"
        /\ pool_op[u].op = "update_phase" /\ pool_op[u].pc = "ret"
        /\ pool_op[u].res = "rejected"
        /\ pool_op[u].phase = pool_op[t].phase
        /\ pool_op[u].floor < pool_op[u].phase

\* An insert or pop called with a phase below the pool phase at the call.
LateCall(o) == o.op \in {"insert", "pop"} /\ o.phase < o.floor

\* C13.  An insert(data, y) or pop(y) called when the pool phase is above y
\* fails (insert is rejected, pop reports InvalidPhase), and no step of it
\* changes the pool: every cell keeps its state, data and phase.
C13_LateCallFails ==
    [][\A t \in Threads :
          (LateCall(pool_op[t]) /\ pool_op[t].pc \notin {"idle", "ret"}
             /\ pool_op'[t] # pool_op[t])
            => /\ pool' = pool
               /\ pool_op'[t].pc = "ret"
               /\ pool_op'[t].res =
                    (IF pool_op[t].op = "insert" THEN "rejected" ELSE "InvalidPhase")]_vars

\* After insert(v, 0) = Ok and an update_phase, an insert at phase 0 was
\* rejected and the cell of v is still SET.
C13_Witness ==
    \E t \in Threads :
        /\ LateCall(pool_op[t]) /\ pool_op[t].op = "insert"
        /\ pool_op[t].pc = "ret" /\ pool_op[t].res = "rejected"
        /\ \E i \in 1..Len(pool.cells) : pool.cells[i].state = SET

(***************************************************************************)
(* Claims about the phases of the allocator, checked under Spec.           *)
(***************************************************************************)
\* Thread t takes the first step of force_gc.
StartsRound(t) == th[t].pc = "idle" /\ th'[t].pc = "init_load"

\* C14.  The global phase never decreases and changes only by +1; the step
\* that starts a force_gc advances it by one exactly when the caller's
\* local phase equals it, so one phase is left by one caller only, and the
\* caller then adopts the global phase as its local phase.
C14_PhaseStepsByOne ==
    [][/\ phase_index' \in {phase_index, phase_index + 1}
       /\ phase_index' # phase_index
            => \E t \in Threads :
                  StartsRound(t) /\ get_or_default(local[t]).phase_index = phase_index
       /\ \A t \in Threads :
            /\ (StartsRound(t) /\ get_or_default(local[t]).phase_index = phase_index)
                 => phase_index' = phase_index + 1
            /\ (th[t].pc = "init_load" /\ th'[t].pc # "init_load")
                 => local'[t].phase_index = phase_index]_vars

\* Two threads with the same local phase are in force_gc together: the
\* global phase is one above that phase and both have adopted it.
C14_Witness ==
    /\ \A t \in Threads :
          /\ InRound(th[t])
          /\ th[t].pc \notin {"init_load"}
          /\ local[t].phase_index = phase_index
    /\ th[1].lphase = th[2].lphase
    /\ phase_index = th[1].lphase + 1

\* C15.  The pool phase and the local phase of every thread that has a
\* Local equal the global phase or are one less.
C15_PhasesWithinOne ==
    /\ pool.phase \in {phase_index, phase_index - 1}
    /\ \A t \in Threads :
          local[t].exists => local[t].phase_index \in {phase_index, phase_index - 1}

\* The phase stored in the marker of node n, read from the raw word.
MarkerPhase(m, n) == m[n] \div 256

\* C16.  No step lowers the phase stored in the marker of any node,
\* whichever of clear_marks' CAS and mark_node's marking CAS takes it and
\* whatever the phases of the threads are.
C16_MarkerPhaseMonotone ==
    [][\A n \in Nodes : MarkerPhase(marker', n) >= MarkerPhase(marker, n)]_vars

\* A thread whose round is one phase behind fails clear_marks' CAS on a
\* marker that the other thread has already moved to the newer phase.
C16_Witness ==
    \E t \in Threads :
        /\ th[t].pc = "um_cas"
        /\ local[t].phase_index < phase_index
        /\ MarkerPhase(marker, th[t].it) > local[t].phase_index
        /\ th[t].raw # marker[th[t].it]

(***************************************************************************)
(* Claims about force_gc and allocate, checked under Spec.                 *)
(***************************************************************************)
\* Thread t takes a step of force_gc.
GcStep(t) == StartsRound(t) \/ (InRound(th[t]) /\ th'[t] # th[t])

\* The nodes reachable from get_globals().
FromGlobals(g, pl) == Closure(SeqSet(get_globals(g)) \ {NULL}, pl, Len(pl))

\* C17.  A step of force_gc writes no payload and leaves the globals alone,
\* so every node reachable from get_globals() before it is reachable after
\* it with the same data and child pointers, and none of them is in an
\* allocation buffer after it.
C17_GcKeepsGraph ==
    [][\A t \in Threads :
          GcStep(t)
            => /\ payload' = payload
               /\ globals' = globals
               /\ FromGlobals(globals, payload) \subseteq FromGlobals(globals', payload')
               /\ FromGlobals(globals, payload) \cap InBuffers(local', pool') = {}]_vars

\* A force_gc has returned while the globals head a list of two nodes.
C17_Witness ==
    \E t \in Threads :
        /\ th[t].op = "force_gc" /\ th[t].pc = "idle" /\ th[t].res = "ok"
        /\ Cardinality(FromGlobals(globals, payload)) = 2

\* C18.  The first call on a freshly constructed allocator, allocate(d) by
\* either thread, returns ok with a handle to a node of the seed page that
\* was not handed out before and whose payload reads back d; no round runs:
\* the phases, the cursor and the markers stay as construction left them.
C18_FreshAllocate ==
    [][\A t \in Threads, d \in SeedData :
          (Calls = 0 /\ Allocate(t, d, NULL))
            => /\ th'[t].pc = "idle" /\ th'[t].res = "ok"
               /\ th'[t].held \in Nodes
               /\ payload[th'[t].held] = Uninit
               /\ payload'[th'[t].held] # Uninit
               /\ payload'[th'[t].held][1].data = d
               /\ \A u \in Threads : ~InRound(th'[u])
               /\ phase_index' = 0 /\ pool'.phase = 0
               /\ local'[t].phase_index = 0
               /\ UNCHANGED <<sweep_chunk_index, marker>>]_vars

\* The thread that did not construct the allocator has allocated 14 first:
\* its buffer came from the pool.
C18_Witness ==
    /\ th[2].op = "allocate" /\ th[2].pc = "idle" /\ th[2].res = "ok"
    /\ hist.allocs = 1
    /\ th[2].held \in Nodes
    /\ payload[th[2].held] = Init_([data |-> 14, next |-> NULL])

\* C20.  Every force_gc leaves its trace loop and reaches the end of its
\* sweep whatever the other threads do; in particular no force_gc ends in a
\* panic before the end of its sweep.
C20_GcReachesSweepEnd ==
    \A t \in Threads : ~(th[t].op = "force_gc" /\ th[t].pc = "aborted")

(***************************************************************************)
(* SpecHelp: the helping scenario.  Thread 1 stalls for ever once it has   *)
(* published a node in cur_traced (it never takes its marking CAS); thread *)
(* 2 keeps being scheduled while it is inside force_gc.                    *)
(***************************************************************************)
\* The steps of a force_gc after its first one (sweep() is also the last
\* part of Allocator::new).
GcRun(t) ==
    \/ Gc_init_load(t)
    \/ Gc_init_dirty(t)
    \/ Gc_um_load(t)
    \/ Gc_um_cas(t)
    \/ Gc_clear_pools(t)
    \/ Gc_gather_local(t)
    \/ Gc_gather_global(t)
    \/ Gc_trace_push(t)
    \/ Gc_mark_peek(t)
    \/ Gc_mark_pub(t)
    \/ Gc_mark_cas(t)
    \/ Gc_fop1(t)
    \/ Gc_fop2(t)
    \/ Gc_fop3(t)
    \/ Sweep_get_page(t)
    \/ Sweep_node(t)

Stalled(t) == th[t].op = "force_gc" /\ th[t].pc = "mark_cas"

HelpNext ==
    \E t \in Threads :
        /\ ~(t = 1 /\ Stalled(1))
        /\ \/ \E nx \in {NULL, globals} : Allocate(t, 1, nx)
           \/ ClientPublish(t)
           \/ Gc_init_cas(t)
           \/ GcRun(t)

SpecHelp == Init /\ [][HelpNext]_vars /\ WF_vars(GcRun(2))

Marked(n, phase) == marker[n] = NodeMarks_into([phase |-> phase, marked |-> TRUE])

\* A round that has not yet read thread 1's Local in finish_or_progress.
BeforeObserving(r) ==
    \/ r.pc \in {"init_dirty", "um_load", "um_cas", "clear_pools", "gather_local",
                 "gather_global", "trace_push", "mark_peek", "mark_pub", "mark_cas"}
    \/ r.pc = "fop1" /\ r.it = 1

\* Thread 2 is in a round of the phase in which thread 1 has stalled, and
\* its finish_or_progress is still to read thread 1's cur_traced.
HelpNeeded ==
    /\ Stalled(1)
    /\ InRound(th[2]) /\ BeforeObserving(th[2])
    /\ local[2].phase_index = local[1].phase_index

\* Thread 2's force_gc has returned and the node thread 1 published, what
\* is reachable from it and what is on thread 1's mark stack are marked.
HelpDone ==
    /\ Stalled(1)
    /\ th[2].op = "force_gc" /\ th[2].pc = "idle" /\ th[2].res = "ok"
    /\ \A n \in Closure({local[1].cur_traced}
                          \cup SeqSet(MarkStack_iter(local[1].mark_stack)),
                        payload, Len(payload)) :
          Marked(n, local[1].phase_index)

UnitInit ==
    /\ pool = Pool_new
    /\ pool_op = [t \in Threads |-> PoolIdle]
    /\ pool_hist = PoolHistInit
    /\ AllocInit(SmallBuffer, SmallPage)

UnitFrame == UNCHANGED <<pool, poolVars, allocVars>>

Without(q, v) == SelectSeq(q, LAMBDA x : x # v)

StackInit ==
    /\ UnitInit
    /\ unit = [stack |-> MarkStack_new, live |-> <<>>, calls |-> 0, pushed |-> 0,
               op |-> "none", out |-> <<>>]

StackPush ==
    /\ unit.calls < MaxStackCalls
    /\ unit' = [unit EXCEPT !.stack = MarkStack_push(@, unit.pushed + 1),
                            !.live = Append(@, unit.pushed + 1),
                            !.calls = @ + 1, !.pushed = @ + 1,
                            !.op = "push", !.out = <<>>]
    /\ UnitFrame

StackPop ==
    /\ unit.calls < MaxStackCalls
    /\ LET r == MarkStack_pop(unit.stack)
       IN  unit' = [unit EXCEPT !.stack = r.s,
                                !.live = IF r.val = <<>> THEN @ ELSE Without(@, r.val[1]),
                                !.calls = @ + 1,
                                !.op = "pop", !.out = r.val]
    /\ UnitFrame

StackNext == StackPush \/ StackPop

SpecStack == StackInit /\ [][StackNext]_vars

\* The pointers held in the cells of a stack.
Held(s) == SeqSet(s.cells) \ {NULL}

\* C21.  Every pop returns the most recently pushed pointer that no pop has
\* returned yet (and nothing when there is none), so n pushes followed by n
\* pops return the pointers in reverse order, also on a stack used before.
C21_PopIsLifo ==
    [][unit'.op = "pop" /\ unit'.calls = unit.calls + 1
         => unit'.out = (IF unit.live = <<>> THEN <<>>
                         ELSE <<unit.live[Len(unit.live)]>>)]_vars

\* C22.  is_empty() is true and peek() is None exactly when every pushed
\* pointer has been returned by a pop.
C22_EmptyIffAllPopped ==
    /\ MarkStack_is_empty(unit.stack) <=> unit.live = <<>>
    /\ MarkStack_peek(unit.stack) = <<>> <=> unit.live = <<>>

\* C23.  iter() yields every pointer held in a cell of the stack.
C23_IterYieldsHeld == SeqSet(MarkStack_iter(unit.stack)) = Held(unit.stack)

(***************************************************************************)
(* SpecFrame: store and clear on one hazard frame.  `stored` is the        *)
(* sequence of the pointers stored since the last clear.                   *)
(***************************************************************************)
FrameInit ==
    /\ UnitInit
    /\ unit = [frame |-> HazardPtrFrame_new, stored |-> <<>>, calls |-> 0,
               cleared |-> FALSE]

FrameStore(ptr) ==
    /\ unit.calls < MaxFrameCalls
    /\ unit' = [unit EXCEPT !.frame = HazardPtrFrame_store(@, ptr),
                            !.stored = Append(@, ptr),
                            !.calls = @ + 1]
    /\ UnitFrame

FrameClear ==
    /\ unit.calls < MaxFrameCalls
    /\ unit' = [unit EXCEPT !.frame = HazardPtrFrame_clear(@),
                            !.stored = <<>>,
                            !.calls = @ + 1,
                            !.cleared = TRUE]
    /\ UnitFrame

FrameNext ==
    \/ \E ptr \in 1..MaxFramePtr : FrameStore(ptr)
    \/ FrameClear

SpecFrame == FrameInit /\ [][FrameNext]_vars

\* How often v occurs in q.
Count(q, v) == Cardinality({i \in 1..Len(q) : q[i] = v})

\* C24.  roots() holds exactly the pointers stored since the last clear,
\* each as often as it was stored: it is a permutation of them (the stored
\* sequence itself on a frame never cleared) and is empty after clear().
C24_RootsAreStored ==
    LET roots == HazardPtrFrame_roots(unit.frame)
    IN  /\ Len(roots) = Len(unit.stored)
        /\ \A v \in 1..MaxFramePtr : Count(roots, v) = Count(unit.stored, v)
        /\ ~unit.cleared => roots = unit.stored

\* Two pointers were stored, the frame was cleared, and two pointers were
\* stored again.
C24_Witness ==
    /\ unit.cleared
    /\ Len(unit.frame) >= 2
    /\ Len(unit.stored) = 2
    /\ unit.stored[1] # unit.stored[2]
    /\ unit.calls = 5

(***************************************************************************)
(* SpecFill: insert after insert into one AllocationBuffer of the size of  *)
(* the code.  SpecBuffer: inserts and pops of one owner on a buffer of     *)
(* MaxBufferSize buckets.  The pointers inserted are distinct (1, 2, ...); `live` is *)
(* the sequence of the pointers inserted with Ok and not yet popped.       *)
(***************************************************************************)
BufferStart(size) ==
    [buf |-> AllocationBuffer_new(size), live |-> <<>>, calls |-> 0,
     op |-> "none", out |-> <<>>, ok |-> TRUE]

BufferInsert ==
    /\ LET ptr == unit.calls + 1
           r == AllocationBuffer_insert(unit.buf, ptr)
       IN  unit' = [unit EXCEPT !.buf = r.b,
                                !.live = IF r.ok THEN Append(@, ptr) ELSE @,
                                !.calls = @ + 1,
                                !.op = "insert", !.out = IF r.ok THEN <<>> ELSE <<ptr>>,
                                !.ok = r.ok]
    /\ UnitFrame

BufferPop ==
    /\ LET r == AllocationBuffer_pop(unit.buf)
       IN  unit' = [unit EXCEPT !.buf = r.b,
                                !.live = IF r.val = <<>> THEN @ ELSE Without(@, r.val[1]),
                                !.calls = @ + 1,
                                !.op = "pop", !.out = r.val,
                                !.ok = r.val # <<>>]
    /\ UnitFrame

FillInit == UnitInit /\ unit = BufferStart(BUFFER_SIZE)

FillNext == unit.calls <= BUFFER_SIZE /\ BufferInsert

SpecFill == FillInit /\ [][FillNext]_vars

BufferInit == UnitInit /\ unit = BufferStart(MaxBufferSize)

BufferNext ==
    \/ unit.calls < MaxBufferCalls /\ BufferInsert
    \/ unit.calls < MaxBufferCalls /\ BufferPop

SpecBuffer == BufferInit /\ [][BufferNext]_vars

\* C25.  Starting from an empty buffer, the first 128 inserts succeed, and
\* the 129th fails, returns the pointer and leaves the buffer as it was.
C25_Capacity128 ==
    [][unit'.op = "insert" /\ unit'.calls = unit.calls + 1
         => /\ unit.calls < BUFFER_SIZE => unit'.ok
            /\ unit.calls = BUFFER_SIZE
                 => /\ ~unit'.ok
                    /\ unit'.out = <<BUFFER_SIZE + 1>>
                    /\ unit'.buf = unit.buf]_vars

\* C26.  For one owner the buffer is LIFO: a pop returns the most recently
\* inserted pointer not yet popped, and None exactly when the buffer holds
\* no pointer; is_empty() is true exactly then.
C26_BufferIsLifo ==
    [][/\ AllocationBuffer_is_empty(unit.buf) <=> unit.live = <<>>
       /\ BufferPtrs(unit.buf) = SeqSet(unit.live)
       /\ unit'.op = "pop" /\ unit'.calls = unit.calls + 1
            => unit'.out = (IF unit.live = <<>> THEN <<>>
                            ELSE <<unit.live[Len(unit.live)]>>)]_vars

\* A pop has returned the last of two inserted pointers after an earlier
\* insert and pop.
C26_Witness ==
    /\ unit.op = "pop" /\ unit.out # <<>>
    /\ Len(unit.live) = 1
    /\ unit.calls >= 5
    /\ unit.out[1] > unit.live[1]

(***************************************************************************)
(* SpecWords: the two packed words at their full width.  A u64 is its 8    *)
(* bytes, low byte first, so `<< 8` and `>> 8` move whole bytes and the    *)
(* byte shifted out of the 64 bits is lost.                                *)
(***************************************************************************)
ByteSamples == {0, 13, 255}

U64 == [1..8 -> ByteSamples]

\* w << 8
U64_shl8(w) == [i \in 1..8 |-> IF i = 1 THEN 0 ELSE w[i - 1]]

\* a shift that moves nothing
U64_shr8_none(w) == w

\* w >> 8
U64_shr8(w) == [i \in 1..8 |-> IF i = 8 THEN 0 ELSE w[i + 1]]

\* w | mask, for a mask of 0x00 or 0x01
U64_or(w, mask) == [w EXCEPT ![1] = 2 * (@ \div 2) + (IF mask = 1 \/ @ % 2 = 1 THEN 1 ELSE 0)]

\* w & 0x01 == 0x01
U64_bit0(w) == w[1] % 2 = 1

\* w & 0xffffffffffffff00
U64_clear_low(w) == [w EXCEPT ![1] = 0]

\* DirtyValue::to_u64 and from_u64 on full-width words.
DirtyValue_to_word(d) == U64_or(U64_shl8(d.phase), IF d.dirty THEN 1 ELSE 0)

DirtyValue_from_word(val) == [dirty |-> U64_bit0(val), phase |-> U64_shr8(val)]

\* NodeMarks into u64 and from u64 on full-width words.
NodeMarks_into_word(m) ==
    U64_or(U64_clear_low(U64_shl8(m.phase)), IF m.marked THEN 1 ELSE 0)

NodeMarks_from_word(raw) == [marked |-> U64_bit0(raw), phase |-> U64_shr8(raw)]

\* The number a word stands for, for words below 2^24.
Small(w) == \A i \in 4..8 : w[i] = 0
Val(w) == w[1] + 256 * w[2] + 65536 * w[3]

WordsInit ==
    /\ UnitInit
    /\ \E kind \in {"dirty", "marks"}, phase \in U64, flag \in BOOLEAN :
          unit = [kind |-> kind, phase |-> phase, flag |-> flag, pc |-> "new",
                  raw |-> <<>>, back |-> <<>>]

WordEncode ==
    /\ unit.pc = "new"
    /\ unit' = [unit EXCEPT
                  !.pc = "encoded",
                  !.raw = IF unit.kind = "dirty"
                          THEN DirtyValue_to_word([dirty |-> unit.flag, phase |-> unit.phase])
                          ELSE NodeMarks_into_word([marked |-> unit.flag, phase |-> unit.phase])]
    /\ UnitFrame

WordDecode ==
    /\ unit.pc = "encoded"
    /\ unit' = [unit EXCEPT
                  !.pc = "decoded",
                  !.back = IF unit.kind = "dirty"
                           THEN <<DirtyValue_from_word(unit.raw)>>
                           ELSE <<NodeMarks_from_word(unit.raw)>>]
    /\ UnitFrame

WordsNext == WordEncode \/ WordDecode

SpecWords == WordsInit /\ [][WordsNext]_vars

\* 0x0D01, low byte first
Word0D01 == <<1, 13, 0, 0, 0, 0, 0, 0>>

\* C27.  For the dirty word and the marker, and every (phase, flag) with
\* phase < 2^56 (top byte zero): decoding the encoding gives (phase, flag)
\* back, bits 1..7 of the encoding are zero, and (marked, phase 13) encodes
\* to 0x0D01.  On phases small enough to be numbers, the encodings are those
\* the allocator's model computes.
C27_WordRoundTrip ==
    (unit.pc # "new" /\ unit.phase[8] = 0)
      => /\ unit.raw[1] \in {0, 1}
         /\ unit.pc = "decoded"
              => unit.back = IF unit.kind = "dirty"
                             THEN <<[dirty |-> unit.flag, phase |-> unit.phase]>>
                             ELSE <<[marked |-> unit.flag, phase |-> unit.phase]>>
         /\ (unit.kind = "marks" /\ unit.flag /\ Small(unit.phase) /\ Val(unit.phase) = 13)
              => unit.raw = Word0D01
         /\ (Small(unit.phase) /\ unit.phase[3] = 0)
              => /\ Small(unit.raw)
                 /\ Val(unit.raw) =
                      IF unit.kind = "dirty"
                      THEN DirtyValue_to_u64([dirty |-> unit.flag, phase |-> Val(unit.phase)])
                      ELSE NodeMarks_into([marked |-> unit.flag, phase |-> Val(unit.phase)])

\* A marker with the largest sampled phase below 2^56 has been encoded and
\* decoded.
C27_Witness ==
    /\ unit.pc = "decoded" /\ unit.kind = "marks" /\ unit.flag
    /\ unit.phase[8] = 0
    /\ \A i \in 1..7 : unit.phase[i] = 255
    /\ unit.back = <<[marked |-> TRUE, phase |-> unit.phase]>>

(***************************************************************************)
(* Claims about the steps of a round, checked under Spec.                  *)
(***************************************************************************)
\* Thread t's trace returns: finish_or_progress returned true.
TraceReturns(t) == InRound(th[t]) /\ th[t].pc # "sweep" /\ th'[t].pc = "sweep"

\* C28.  When the trace of a round of phase p returns and no other round has
\* ever run, every node reachable through pointers() from the roots the
\* round gathered is marked in phase p.
C28_TraceMarksReachable ==
    [][\A t \in Threads :
          (TraceReturns(t) /\ hist.rounds = 1)
            => \A n \in Closure(SeqSet(th[t].roots) \ {NULL}, payload, Len(payload)) :
                  marker'[n] = NodeMarks_into([phase |-> local[t].phase_index,
                                               marked |-> TRUE])]_vars

\* Thread t's init_reclaimation returns.
InitReturns(t) == th[t].pc = "init_dirty" /\ th'[t].pc = "um_load"

\* C29.  When the init_reclaimation of a round that advanced the global
\* phase returns, every thread that had a Local when the round started has
\* its dirty bit set.
C29_InitDirtiesAll ==
    [][\A t \in Threads :
          (InitReturns(t) /\ local[t].phase_index = th[t].lphase + 1)
            => \A u \in th[t].had : DirtyValue_from_u64(local'[u].dirty).dirty]_vars

\* Thread t's sweep of a round ends: its get_page returns None.
SweepEnds(t) ==
    /\ InRound(th[t])
    /\ th[t].pc = "sweep"
    /\ th'[t].pc # "sweep"
    /\ get_page(sweep_chunk_index, get_or_default(local[t]).phase_index).page = <<>>

\* C30.  When get_page returns None to the sweep of a round of phase p, the
\* cursor stands at (p, page_count): every page of the list has been handed
\* out in phase p, each once, before the first None.
C30_SweepHandsOutEveryPage ==
    [][\A t \in Threads :
          SweepEnds(t)
            => index_data(sweep_chunk_index) =
                 <<get_or_default(local[t]).phase_index, PAGE_COUNT>>]_vars

\* Thread t's update_marks returns: the last node of the page is done.
UpdateMarksReturns(t) ==
    /\ th[t].pc \in {"um_load", "um_cas"}
    /\ th'[t].pc = "clear_pools"

\* C31.  When update_marks(p) returns, every marker has phase >= p, whatever
\* the other threads did meanwhile.
C31_MarkersReachPhase ==
    [][\A t \in Threads :
          UpdateMarksReturns(t)
            => \A n \in Nodes : MarkerPhase(marker', n) >= local[t].phase_index]_vars

\* finish_or_progress returns true to thread t.
FopReturnsTrue(t) == th[t].pc = "fop3" /\ th'[t].pc = "sweep"

MarkCasOk(t) ==
    /\ th[t].pc = "mark_cas"
    /\ th'[t].pc = "mark_peek"
    /\ marker[th[t].obj] =
         NodeMarks_into([phase |-> local[t].phase_index, marked |-> FALSE])

MarkCasFails(t) ==
    /\ th[t].pc = "mark_cas"
    /\ th'[t].pc = "mark_peek"
    /\ marker[th[t].obj] #
         NodeMarks_into([phase |-> local[t].phase_index, marked |-> FALSE])

\* A marker becomes marked only by the CAS of a tracer of the marker's
\* phase, from unmarked to marked in that phase; no marker goes back from
\* marked to unmarked within a phase, so that CAS succeeds once per phase.
MarkedOnlyByCas ==
    \A n \in Nodes :
        /\ (marker'[n] # marker[n] /\ NodeMarks_from(marker'[n]).marked)
              => \E t \in Threads :
                    /\ MarkCasOk(t)
                    /\ th[t].obj = n
                    /\ marker'[n] = NodeMarks_into([phase |-> local[t].phase_index,
                                                    marked |-> TRUE])
        /\ NodeMarks_from(marker[n]).marked
              => \/ marker'[n] = marker[n]
                 \/ MarkerPhase(marker', n) > MarkerPhase(marker, n)

\* A failed CAS leaves the marker alone and takes out of the caller's mark
\* stack the children the call pushed, and nothing else.
FailedCasUndoesPush ==
    \A t \in Threads :
        MarkCasFails(t)
          => /\ marker' = marker
             /\ \A v \in Nodes :
                   Count(local[t].mark_stack.cells, v)
                     = Count(local'[t].mark_stack.cells, v)
                         + Count(NonNull(pointers(payload[th[t].obj])), v)

LeasePcs ==
    {"i_e_chk", "i_e_write", "i_e_set", "i_s_chk", "i_s_write", "i_s_set",
     "i_a_chk", "p_chk", "p_drop", "p_restore", "p_take"}

HoldsLease(t, i) == pool_op[t].pc \in LeasePcs /\ pool_op[t].cur = i

\* The next step of the operation of thread t reads or writes the data or
\* the phase of cell i.
AccessPcs == {"i_set_ph", "i_e_write", "i_s_write", "p_chk", "p_drop", "p_take"}

Accesses(t, i) == pool_op[t].pc \in AccessPcs /\ pool_op[t].cur = i

\* C34.  A cell is held in ACCESSED by at most one operation at a time, and
\* no operation reads or writes the data or the phase of a cell while
\* another operation holds it.
C34_ExclusiveLease ==
    \A i \in 1..Len(pool.cells) :
        /\ Cardinality({t \in Threads : HoldsLease(t, i)}) <= 1
        /\ (\E t \in Threads : HoldsLease(t, i)) => pool.cells[i].state = ACCESSED
        /\ \A t, u \in Threads : (t # u /\ HoldsLease(u, i)) => ~Accesses(t, i)

\* No insert and no pop is in flight on the pool.
PoolQuiet(ops) == \A t \in Threads : ops[t].op \notin {"insert", "pop"}

\* The step in which the insert of thread t reaches its `return Ok(())`.
InsertReturnsOk(t) ==
    /\ pool_op[t].op = "insert"
    /\ pool_op[t].pc # "ret"
    /\ pool_op'[t].pc = "ret"
    /\ pool_op'[t].res = "ok"

\* The SET cells of pool p that hold value v tagged with phase ph.
SetCells(p, v, ph) ==
    {i \in 1..Len(p.cells) :
        /\ p.cells[i].state = SET
        /\ p.cells[i].data = Init_(v)
        /\ p.cells[i].phase = ph}

\* C35.  Whenever no insert or pop is in flight no cell is ACCESSED, and an
\* insert that returns ok leaves exactly one SET cell holding its data,
\* tagged with its phase.
C35_LeaseReleased ==
    [][/\ PoolQuiet(pool_op') =>
            \A i \in 1..Len(pool'.cells) : pool'.cells[i].state # ACCESSED
       /\ \A t \in Threads :
            InsertReturnsOk(t) =>
              Cardinality(SetCells(pool', pool_op[t].data, pool_op[t].phase)) = 1]_vars

\* The operation of thread t holds a lease and its recheck finds the pool's
\* phase different from its phase argument.
RecheckFails(t, pc) ==
    /\ pool_op[t].pc = pc
    /\ pool_op'[t] # pool_op[t]
    /\ pool.phase # pool_op[t].phase

\* The cells of the pool after the step are those before it, but for the
\* state of cell i.
OnlyState(i, state) ==
    pool'.cells = [pool.cells EXCEPT ![i] = [@ EXCEPT !.state = state]]

\* insert rolls back: an EMPTY cell and an appended cell become EMPTY and
\* the call rejects, a stale SET cell becomes SET again, payload and phase
\* untouched.
InsertRollsBack(t) ==
    /\ RecheckFails(t, "i_e_chk")
         => OnlyState(pool_op[t].cur, EMPTY) /\ pool_op'[t].res = "rejected"
    /\ RecheckFails(t, "i_a_chk")
         => OnlyState(pool_op[t].cur, EMPTY) /\ pool_op'[t].res = "rejected"
    /\ RecheckFails(t, "i_s_chk")
         => OnlyState(pool_op[t].cur, SET) /\ pool_op'[t].pc # "ret"

\* pop puts the cell back to SET and returns InvalidPhase.
PopRestores(t) ==
    /\ pool_op[t].pc = "p_restore"
    /\ pool_op'[t] # pool_op[t]
    => /\ OnlyState(pool_op[t].cur, SET)
       /\ pool_op'[t].pc = "ret" /\ pool_op'[t].res = "InvalidPhase"

\* C36 as stated.  Whenever the recheck of an insert or a pop holding the
\* lease fails, the cell is rolled back unchanged; pop restores SET and
\* returns InvalidPhase.
C36_RollbackAlways ==
    [][\A t \in Threads :
          /\ InsertRollsBack(t)
          /\ PopRestores(t)
          /\ RecheckFails(t, "p_chk") => pool_op'[t].pc = "p_restore"]_vars

\* C36.  As above, but pop restores SET and returns InvalidPhase only for a
\* cell tagged with the pool's phase; a cell of another phase is stale and
\* pop drops its payload, stores EMPTY and goes on.
C36_RollbackUnlessStale ==
    [][\A t \in Threads :
          /\ InsertRollsBack(t)
          /\ PopRestores(t)
          /\ RecheckFails(t, "p_chk")
               => IF pool.cells[pool_op[t].cur].phase = pool.phase
                  THEN pool_op'[t].pc = "p_restore"
                  ELSE pool_op'[t].pc = "p_drop"]_vars

\* A pop holding a cell of the pool's phase has found the pool's phase
\* different from its own and is about to restore SET.
C36_Witness ==
    \E t \in Threads :
        /\ pool_op[t].pc = "p_restore"
        /\ pool.phase # pool_op[t].phase
        /\ pool.cells[pool_op[t].cur].phase = pool.phase

\* The allocation buffers: the thread-local ones and the pooled ones.
AllBuffers(loc, p) ==
    [t \in Threads |-> loc[t].alloc.buffer]
      \o [i \in 1..Len(p.cells) |->
            IF p.cells[i].data = Uninit THEN <<>> ELSE p.cells[i].data[1].buffer]

RECURSIVE Occurrences(_, _)
Occurrences(bufs, n) ==
    IF bufs = <<>> THEN 0 ELSE Count(Head(bufs), n) + Occurrences(Tail(bufs), n)

\* The allocate of thread t returns the slot n.
AllocateReturns(t, n) ==
    /\ th'[t].op = "allocate" /\ th'[t].res = "ok" /\ th'[t].held = n
    /\ th'[t] # th[t]

\* C37.  No slot is in two buckets of the allocation buffers at once, and a
\* slot that allocate has returned is returned again only after a sweep has
\* put it into a buffer in between.
C37_SlotsHandedOnce ==
    [][/\ \A n \in Nodes : Occurrences(AllBuffers(local', pool'), n) <= 1
       /\ \A t \in Threads, n \in Nodes :
            (AllocateReturns(t, n) /\ n \in Handed(payload)) => n \in hist.fresh]_vars

\* Two slots are handed out, a reclamation round has returned in a later
\* phase, and slots put aside in phase 0 are still in a buffer.
C37_Witness ==
    /\ Cardinality(Handed(payload)) = 2
    /\ phase_index > 0
    /\ \E t \in Threads : th[t].op = "allocate" /\ th[t].res = "ok"
    /\ InBuffers(local, pool) # {}

\* finish_or_progress of thread t calls help: the first or the second block
\* found an unmarked node.
HelpCalled(t) ==
    /\ th[t].pc \in {"fop1", "fop2"}
    /\ th'[t].pc \in {"mark_peek", "aborted"}

\* C38.  Whenever finish_or_progress calls help, the caller's local phase is
\* the global phase, so help pushes and never reaches its todo!().
C38_HelpInGlobalPhase ==
    [][\A t \in Threads :
          HelpCalled(t) => /\ local[t].phase_index = phase_index
                           /\ th'[t].pc # "aborted"]_vars

\* Thread t is the only thread that has ever run a reclamation round.
OnlyReclaimer(t) ==
    \A u \in Threads \ {t} :
        /\ th[u].op # "force_gc"
        /\ local[u].phase_index = 0
        /\ local[u].cur_traced = NULL

\* C39.  When the trace of the only reclaiming thread returns in phase p,
\* every node marked in phase p is reachable through pointers() from the
\* roots the round gathered.
C39_MarkedOnlyIfReachable ==
    [][\A t \in Threads :
          (TraceReturns(t) /\ OnlyReclaimer(t))
            => \A n \in Nodes :
                  marker'[n] = NodeMarks_into([phase |-> local[t].phase_index,
                                               marked |-> TRUE])
                    => n \in Closure(SeqSet(th[t].roots) \ {NULL}, payload, Len(payload))]_vars

\* The non-null pointers in the hazard frames of every thread.
FramePtrs(loc) ==
    UNION {SeqSet(loc[u].hazard_ptr_frames[f]) : u \in Threads, f \in 1..2} \ {NULL}

\* No slot of a hazard frame loses its pointer and no frame loses a slot.
FramesOnlyGrow ==
    \A u \in Threads, f \in 1..2 :
        LET old == local[u].hazard_ptr_frames[f]
            new == local'[u].hazard_ptr_frames[f]
        IN  /\ Len(new) >= Len(old)
            /\ \A i \in 1..Len(old) : old[i] # NULL => new[i] = old[i]

\* Thread t's round gathers the local roots.
GathersLocalRoots(t) == th[t].pc = "gather_local" /\ th'[t].pc = "gather_global"

\* C40.  No step removes a pointer from a hazard frame, frames only gain
\* slots, and the roots a round gathers hold every staged pointer, untagged.
C40_StagedPointersStay ==
    [][/\ FramesOnlyGrow
       /\ \A t \in Threads :
            GathersLocalRoots(t)
              => {untag_ptr(p) : p \in FramePtrs(local)} \subseteq SeqSet(th'[t].roots)]_vars

\* A round has gathered its roots after two begin_write_only calls of one
\* thread, which fill two slots of its frames.
C40_Witness ==
    \E t, u \in Threads :
        /\ th[t].pc = "gather_global"
        /\ hist.stages = 2
        /\ Len(NonNull(local[u].hazard_ptr_frames[1]))
             + Len(NonNull(local[u].hazard_ptr_frames[2])) = 2
        /\ FramePtrs(local) \subseteq SeqSet(th[t].roots)

====
